---- MODULE Spec2Model ----
(***************************************************************************)
(* Model of src/app.py (Mythmaker): the Gateway execute_agent, the         *)
(* parallel gathering phase, context compaction and the refine/evaluate    *)
(* loop of run_pipeline.                                                   *)
(*                                                                         *)
(* A Python str is a sequence of tokens.  A token is a record: Ch(c) is a  *)
(* run of characters c that the program never looks inside, JsonTok(v) is  *)
(* a run of characters that json.loads reads as the JSON document v.       *)
(* String concatenation is \o; the empty string is << >>.                  *)
(***************************************************************************)
EXTENDS Integers, Sequences, FiniteSets, TLC

----------------------------------------------------------------------------
(* Bounds of the model *)

\* most content parts in the first candidate of a service response
MaxParts == 2
\* the Critic's integer scores range over Threshold-ScoreSpread .. Threshold+ScoreSpread
ScoreSpread == 1

(* Program constants *)

\* for i in range(2)
MaxIterations == 2
\* if score >= 8
Threshold == 8

----------------------------------------------------------------------------
(* Strings *)

Ch(c) == [t |-> "ch", c |-> c]
Lit(c) == <<Ch(c)>>
JsonTok(v) == [t |-> "json", v |-> v]

\* Python evaluates the receiver of a method call and the right side of an
\* assignment once; below, v \in {e} binds v to the value of e in that way.

NL == Ch("\n")
SP == Ch(" ")
IsSpace(x) == x = NL \/ x = SP

\* JSON values: a string, null, an integer, a boolean, a list, an object
\* with the (possibly absent) members "score" and "feedback"
JStr(s) == [t |-> "str", v |-> s]
JInt(n) == [t |-> "int", v |-> n]
JBool(b) == [t |-> "bool", v |-> b]
JNull == [t |-> "null"]
JList == [t |-> "list"]
Absent == [t |-> "absent"]
JObj(score, feedback) == [t |-> "obj", score |-> score, feedback |-> feedback]

\* one token of str.replace(old, ""): the characters of a JSON document
\* include those of its feedback string, so the marker is cut out there too
ReplaceInTok(x, old) ==
    IF x.t = "json" /\ x.v.t = "obj" /\ x.v.feedback.t = "str"
    THEN [x EXCEPT !.v.feedback.v = SelectSeq(@, LAMBDA y : y # Ch(old))]
    ELSE x

\* s.replace(old, "") for a marker old
Replace(s, old) ==
    CHOOSE r \in {[k \in 1..Len(kept) |-> ReplaceInTok(kept[k], old)] :
                      kept \in {SelectSeq(s, LAMBDA x : x # Ch(old))}} : TRUE

RECURSIVE LStrip(_)
LStrip(s) == IF s # << >> /\ IsSpace(Head(s)) THEN LStrip(Tail(s)) ELSE s

RECURSIVE RStrip(_)
RStrip(s) ==
    IF s # << >> /\ IsSpace(s[Len(s)]) THEN RStrip(SubSeq(s, 1, Len(s) - 1)) ELSE s

\* s.strip()
Strip(s) == CHOOSE r \in {RStrip(l) : l \in {LStrip(v) : v \in {s}}} : TRUE

\* json.loads(s): the document, or raised |-> TRUE for JSONDecodeError.
\* Leading and trailing whitespace is accepted, anything else around the
\* document is not.
json_loads(s) ==
    CHOOSE r \in {IF Len(body) = 1 /\ body[1].t = "json"
                  THEN [raised |-> FALSE, v |-> body[1].v]
                  ELSE [raised |-> TRUE, v |-> JNull] : body \in {Strip(s)}} : TRUE

\* bool(x) of a value bound to feedback: "" and None are falsy
Truthy(x) ==
    CASE x.t = "str" -> x.v # << >>
      [] x.t = "bool" -> x.v
      [] x.t = "list" -> TRUE
      [] OTHER -> FALSE

\* f"{x}" of a value bound to feedback
Format(x) ==
    CASE x.t = "str" -> x.v
      [] x.t = "null" -> Lit("None")
      [] x.t = "bool" -> IF x.v THEN Lit("True") ELSE Lit("False")
      [] OTHER -> Lit("[...]")

----------------------------------------------------------------------------
(* The external completion service *)

Agents == {"Visionary", "Investigator", "Bard", "Critic"}

\* client.models.generate_content raised Exception(msg)
Exc(msg) == [k |-> "exc", msg |-> msg]
\* it returned a response with these candidates
Resp(candidates) == [k |-> "resp", candidates |-> candidates]
\* a candidate: content is None, or content.parts holds these part.text
\* values (<< >> stands for a part whose text is None or "")
Cand(parts) == [content_none |-> FALSE, parts |-> parts]
CandNoContent == [content_none |-> TRUE, parts |-> << >>]

ErrMsg == Lit("503 UNAVAILABLE")
AttrErrMsg == Lit("NoneType object has no attribute parts")

\* what each text role writes in one content part
RoleText(agent) ==
    CASE agent = "Visionary" -> <<Ch("fog"), NL, Ch("a raven")>>
      [] agent = "Investigator" -> Lit("1536: Anne Boleyn beheaded")
      [] OTHER -> Lit("I saw her walk the Green.")

SeqsUpTo(S, n) == UNION {[1..k -> S] : k \in 0..n}

\* the gathering roles: the request fails, no candidate, one part of text
GatherResponses(agent) ==
    {Exc(ErrMsg), Resp(<< >>), Resp(<<Cand(<<RoleText(agent)>>)>>)}

\* the Bard: also a candidate without content, and up to MaxParts parts
BardResponses ==
    {Exc(ErrMsg), Resp(<<CandNoContent>>)}
      \cup {Resp(<<Cand(p)>>) : p \in SeqsUpTo({<< >>, RoleText("Bard")}, MaxParts)}

\* the Critic's outputs
Scores == (Threshold - ScoreSpread)..(Threshold + ScoreSpread)
\* the markers of a markdown code fence (a backquote is written BQ here)
FenceOpen == Ch("BQBQBQjson")
Fence == Ch("BQBQBQ")
Fenced(s) == <<FenceOpen, NL>> \o s \o <<NL, Fence>>
Doc(v) == <<JsonTok(v)>>

CriticDocs ==
    {JObj(JInt(n), JStr(Lit("needs more dread"))) : n \in Scores}
      \cup {JObj(Absent, JStr(Lit("needs more dread"))),
            JObj(JStr(Lit("9")), JStr(Lit("great"))),
            JObj(JNull, JStr(Lit("great"))),
            JObj(JBool(TRUE), JStr(Lit("great"))),
            JObj(JInt(Threshold - 1), Absent),
            JObj(JInt(Threshold - 1), JStr(<< >>)),
            JObj(JInt(Threshold - 1), JNull),
            JObj(JInt(Threshold - 1), JStr(<<Ch("cut the "), Fence, Ch("gore")>>)),
            JList}

CriticTexts ==
    {Doc(v) : v \in CriticDocs}
      \cup {Fenced(Doc(JObj(JInt(n), JStr(Lit("needs more dread"))))) : n \in Scores}
      \cup {Lit("A fine myth, 9/10."),
            Lit("{score: 9, feedback: great}"),
            Doc(JObj(JInt(Threshold - 1), JStr(Lit("more")))) \o <<SP, Ch("Hope this helps.")>>}

CriticResponses ==
    {Exc(ErrMsg), Resp(<< >>)}
      \cup {Resp(<<Cand(<<s>>)>>) : s \in CriticTexts}
      \cup {Resp(<<Cand(<<<<FenceOpen>>, <<NL, JsonTok(JObj(JInt(Threshold + 1), JStr(Lit("great")))), NL>>>>), Cand(<<Lit("no")>>)>>)}

Responses(agent) ==
    CASE agent = "Critic" -> CriticResponses
      [] agent = "Bard" -> BardResponses
      [] OTHER -> GatherResponses(agent)

----------------------------------------------------------------------------
(* 4.1 Model Gateway: execute_agent *)

\* what execute_agent sends: the role, the content list, the search tool
Request(agent, prompt, image_input, use_google_search) ==
    [agent |-> agent,
     image |-> image_input # << >>,
     prompt |-> prompt,
     search |-> use_google_search]

\* full_text: the texts of the first candidate's parts, in order
RECURSIVE JoinParts(_)
JoinParts(parts) ==
    IF parts = << >> THEN << >>
    ELSE (IF Head(parts) # << >> THEN Head(parts) ELSE << >>) \o JoinParts(Tail(parts))

ExtractText(response) ==
    IF response.candidates # << >> /\ response.candidates[1].parts # << >>
    THEN JoinParts(response.candidates[1].parts)
    ELSE << >>

\* the outcome of execute_agent for what the service did: a returned str,
\* or an exception leaving the function
Returned(s) == [raised |-> FALSE, value |-> s]
Raised(msg) == [raised |-> TRUE, value |-> msg]

execute_agent_uncaught(response) ==
    IF response.k = "exc"
    THEN Raised(response.msg)
    ELSE IF response.candidates # << >> /\ response.candidates[1].content_none
    THEN Raised(AttrErrMsg)
    ELSE LET full_text == ExtractText(response)
         IN  Returned(IF full_text # << >> THEN full_text ELSE Lit("No response generated."))

execute_agent_no_fallback(response) ==
    IF response.k = "exc"
    THEN Returned(Lit("Error: ") \o response.msg)
    ELSE IF response.candidates # << >> /\ response.candidates[1].content_none
    THEN Returned(Lit("Error: ") \o AttrErrMsg)
    ELSE Returned(ExtractText(response))

execute_agent(response) ==
    IF response.k = "exc"
    THEN Returned(Lit("Error: ") \o response.msg)
    ELSE IF response.candidates # << >> /\ response.candidates[1].content_none
    THEN Returned(Lit("Error: ") \o AttrErrMsg)
    ELSE LET full_text == ExtractText(response)
         IN  Returned(IF full_text # << >> THEN full_text ELSE Lit("No response generated."))

----------------------------------------------------------------------------
(* 4.3 Context Compaction *)

\* context_package: three f-string lines
ContextPackageTruncated(loc, vis, lor) ==
    Lit("LOCATION: ") \o loc \o <<NL>>
      \o Lit("VISUALS: ") \o SubSeq(vis, 1, 1) \o <<NL>>
      \o Lit("VERIFIED LORE: ") \o lor \o <<NL>>
ContextPackage(loc, vis, lor) ==
    Lit("LOCATION: ") \o loc \o <<NL>>
      \o Lit("VISUALS: ") \o vis \o <<NL>>
      \o Lit("VERIFIED LORE: ") \o lor \o <<NL>>

----------------------------------------------------------------------------
(* 4.4 Refine-and-Evaluate Loop: the pure steps *)

\* prompt_text
PromptText(fb) ==
    IF Truthy(fb)
    THEN Lit("Refine this myth based on feedback: ") \o Format(fb)
    ELSE Lit("Write the myth.")

\* full_prompt
FullPrompt(fb, context) == PromptText(fb) \o Lit("\n\nCONTEXT:\n") \o context

\* the Critic's prompt
EvaluatePromptNoDraft(draft) == Lit("Evaluate:\n{current_draft}")
EvaluatePrompt(draft) == Lit("Evaluate:\n") \o draft

\* clean_json
CleanJson(result) == Strip(Replace(Replace(result, FenceOpen.c), Fence.c))

\* data.get("score", 0) and data.get("feedback", "Good.")
GetScoreDefaultHigh(data) == IF data.score = Absent THEN JInt(Threshold) ELSE data.score
GetScore(data) == IF data.score = Absent THEN JInt(0) ELSE data.score
GetFeedback(data) == IF data.feedback = Absent THEN JStr(Lit("Good.")) ELSE data.feedback

\* score >= 8 is defined for numbers (a bool is the int 0 or 1) and raises
\* TypeError for a str, None or a list
Comparable(score) == score.t \in {"int", "bool"}
NumberOf(score) == IF score.t = "int" THEN score.v ELSE IF score.v THEN 1 ELSE 0
ScoreAcceptsStrict(score) == NumberOf(score) > Threshold
ScoreAcceptsLax(score) == NumberOf(score) >= Threshold - 1
ScoreAccepts(score) == NumberOf(score) >= Threshold

\* except: (bare) catches every exception raised in the try block
ExceptCatchesDecodeOnly(kind) == kind = "JSONDecodeError"
ExceptCatches(kind) == TRUE

\* The try block on the Critic's result: exc says an exception was raised in
\* it, escapes that the except clause did not catch it, brk that the loop is
\* left, fb is the value bound to feedback afterwards.
TryBlock(result, fb) ==
    LET raise(kind, f) ==
            [exc |-> TRUE, escapes |-> ~ExceptCatches(kind), brk |-> TRUE, fb |-> f]
        after(loaded) ==
            IF loaded.raised THEN raise("JSONDecodeError", fb)
            ELSE IF loaded.v.t # "obj" THEN raise("AttributeError", fb)
            ELSE LET score == GetScore(loaded.v)
                     new == GetFeedback(loaded.v)
                 IN  IF ~Comparable(score)
                     THEN raise("TypeError", new)
                     ELSE [exc |-> FALSE, escapes |-> FALSE,
                           brk |-> ScoreAccepts(score), fb |-> new]
    IN  CHOOSE r \in {after(loaded) : loaded \in {json_loads(CleanJson(result))}} : TRUE

\* session_memory["drafts"].append(current_draft)
AppendDraftSkipErrors(drafts, draft) ==
    IF draft # << >> /\ Head(draft) = Ch("Error: ") THEN drafts ELSE Append(drafts, draft)
AppendDraft(drafts, draft) == Append(drafts, draft)

\* for i in range(2): whether another pass follows pass i
LoopContinuesThree(k) == k + 1 < MaxIterations + 1
LoopContinues(k) == k + 1 < MaxIterations

----------------------------------------------------------------------------
(* State *)

VARIABLES
    location,         \* run_pipeline's argument
    pc,               \* where the coroutine run_pipeline stands
    task,             \* the asyncio.to_thread call of each role
    session_memory,   \* the dict built and returned by run_pipeline
    visuals, lore,    \* locals of run_pipeline
    context_package,
    current_draft,
    feedback,
    eval_result,
    i,
    calls,            \* per role, the requests execute_agent was entered with
    returns,          \* per role, how each execute_agent call ended
    finished,         \* the roles, in the order in which their calls ended
    session_state,    \* st.session_state: memory, analysis_complete, current_image
    run               \* how often "Summon Agents" has started run_pipeline

vars == <<location, pc, task, session_memory, visuals, lore, context_package,
          current_draft, feedback, eval_result, i, calls, returns, finished,
          session_state, run>>

\* what run_pipeline and its workers never touch
app_vars == <<session_state, run>>

\* image_bytes: the uploaded file's bytes
ImageBytes == Lit("[jpeg bytes]")

Locations == {Lit("Tower of London"), <<Ch("Salem"), NL, Ch("VISUALS: ")>>}

GatherAgents == {"Visionary", "Investigator"}

\* session_memory as run_pipeline creates it
EmptyMemory == [visuals |-> << >>, lore |-> << >>, drafts |-> << >>, final_myth |-> << >>]

NoTask == [st |-> "none", request |-> << >>, out |-> Returned(<< >>)]

\* asyncio.to_thread(execute_agent, ...) awaited: the call is handed to a worker
ToThreadNeverRuns(request) == [st |-> "created", request |-> request, out |-> Returned(<< >>)]
ToThread(request) == [st |-> "pending", request |-> request, out |-> Returned(<< >>)]

VisionRequest == Request("Visionary", Lit("Describe the atmosphere."), ImageBytes, FALSE)
InvestigatorRequest(loc) ==
    Request("Investigator",
            Lit("Find specific dark history and ghost stories for: ") \o loc,
            << >>, TRUE)
BardRequest(fb, context) == Request("Bard", FullPrompt(fb, context), << >>, FALSE)
CriticRequest(draft) == Request("Critic", EvaluatePrompt(draft), << >>, FALSE)

\* st.session_state before any run has been stored
NoSessionState ==
    [memory |-> EmptyMemory, analysis_complete |-> FALSE, current_image |-> 0]

Init ==
    /\ location \in Locations
    /\ pc = "start"
    /\ task = [a \in Agents |-> NoTask]
    /\ session_memory = EmptyMemory
    /\ visuals = << >>
    /\ lore = << >>
    /\ context_package = << >>
    /\ current_draft = << >>
    /\ feedback = JStr(<< >>)
    /\ eval_result = << >>
    /\ i = 0
    /\ calls = [a \in Agents |-> << >>]
    /\ returns = [a \in Agents |-> << >>]
    /\ finished = << >>
    /\ session_state = NoSessionState
    /\ run = 1

----------------------------------------------------------------------------
(* Worker threads *)

\* a worker enters execute_agent and issues the request
ThreadStart(a) ==
    /\ task[a].st = "pending"
    /\ task' = [task EXCEPT ![a].st = "running"]
    /\ calls' = [calls EXCEPT ![a] = Append(@, task[a].request)]
    /\ UNCHANGED <<location, pc, session_memory, visuals, lore, context_package,
                   current_draft, feedback, eval_result, i, returns, finished, app_vars>>

\* the service answers (or fails) and execute_agent ends
Finish(a, response) ==
    LET out == execute_agent(response)
    IN  /\ task[a].st = "running"
        /\ task' = [task EXCEPT ![a].st = "done", ![a].out = out]
        /\ returns' = [returns EXCEPT ![a] =
                         Append(@, [failed |-> response.k = "exc", out |-> out])]
        /\ finished' = Append(finished, a)
        /\ UNCHANGED <<location, pc, session_memory, visuals, lore, context_package,
                       current_draft, feedback, eval_result, i, calls, app_vars>>

ThreadFinish(a) == \E response \in Responses(a) : Finish(a, response)

----------------------------------------------------------------------------
(* run_pipeline, one action per stretch between two awaits *)

\* Phase 1: both gathering calls are created and handed to asyncio.gather
StartGather ==
    /\ pc = "start"
    /\ pc' = "gather"
    /\ task' = [task EXCEPT !["Visionary"] = ToThread(VisionRequest),
                            !["Investigator"] = ToThread(InvestigatorRequest(location))]
    /\ UNCHANGED <<location, session_memory, visuals, lore, context_package,
                   current_draft, feedback, eval_result, i, calls, returns, finished,
                   app_vars>>

\* await asyncio.gather(...) resumes: every call is done, or one has raised
GatherReadyFirstCompleted(t) == \E a \in GatherAgents : t[a].st = "done"
GatherReady(t) ==
    \/ \A a \in GatherAgents : t[a].st = "done"
    \/ \E a \in GatherAgents : t[a].st = "done" /\ t[a].out.raised

\* visuals, lore = await asyncio.gather(vision_task, investigator_task):
\* the results in the order of the arguments
GatherResultsByCompletion(t) == <<t[finished[1]].out.value, t[finished[2]].out.value>>
GatherResults(t) == <<t["Visionary"].out.value, t["Investigator"].out.value>>

\* the join, the stores, compaction and the first Bard call
GatherJoin ==
    /\ pc = "gather"
    /\ GatherReady(task)
    /\ IF \E a \in GatherAgents : task[a].st = "done" /\ task[a].out.raised
       THEN /\ pc' = "raised"
            /\ UNCHANGED <<task, session_memory, visuals, lore, context_package,
                           current_draft, feedback, i>>
       ELSE LET res == GatherResults(task)
                context == ContextPackage(location, res[1], res[2])
            IN  /\ visuals' = res[1]
                /\ lore' = res[2]
                /\ session_memory' = [session_memory EXCEPT !.visuals = res[1], !.lore = res[2]]
                /\ context_package' = context
                /\ current_draft' = << >>
                /\ feedback' = JStr(<< >>)
                /\ i' = 0
                /\ task' = [task EXCEPT !["Bard"] = ToThread(BardRequest(JStr(<< >>), context))]
                /\ pc' = "bard"
    /\ UNCHANGED <<location, eval_result, calls, returns, finished, app_vars>>

\* await asyncio.to_thread(...) resumes when the call it handed out is done
AwaitedNotAwaited(t, a) == t[a].st # "none"
Awaited(t, a) == t[a].st = "done"

\* 3a ends: the draft is stored, and 3b hands the draft to the Critic
BardDone ==
    /\ pc = "bard"
    /\ Awaited(task, "Bard")
    /\ IF task["Bard"].out.raised
       THEN /\ pc' = "raised"
            /\ UNCHANGED <<task, session_memory, current_draft>>
       ELSE LET draft == task["Bard"].out.value
            IN  /\ current_draft' = draft
                /\ session_memory' = [session_memory EXCEPT !.drafts = AppendDraft(@, draft)]
                /\ task' = [task EXCEPT !["Bard"] = NoTask,
                                        !["Critic"] = ToThread(CriticRequest(draft))]
                /\ pc' = "critic"
    /\ UNCHANGED <<location, visuals, lore, context_package, feedback, eval_result,
                   i, calls, returns, finished, app_vars>>

\* 3b ends: the try block, then the next pass or the end of run_pipeline
CriticDone ==
    /\ pc = "critic"
    /\ Awaited(task, "Critic")
    /\ IF task["Critic"].out.raised
       THEN /\ pc' = "raised"
            /\ UNCHANGED <<task, session_memory, feedback, eval_result, i>>
       ELSE \E result \in {task["Critic"].out.value} :
            \E try \in {TryBlock(result, feedback)} :
                /\ eval_result' = result
                /\ feedback' = try.fb
                /\ i' = IF ~try.brk /\ LoopContinues(i) THEN i + 1 ELSE i
                /\ IF try.escapes
                   THEN /\ task' = [task EXCEPT !["Critic"] = NoTask]
                        /\ pc' = "raised"
                        /\ UNCHANGED session_memory
                   ELSE IF ~try.brk /\ LoopContinues(i)
                   THEN /\ task' = [task EXCEPT !["Critic"] = NoTask,
                                                !["Bard"] = ToThread(BardRequest(try.fb, context_package))]
                        /\ pc' = "bard"
                        /\ UNCHANGED session_memory
                   ELSE /\ task' = [task EXCEPT !["Critic"] = NoTask]
                        /\ session_memory' = [session_memory EXCEPT !.final_myth = current_draft]
                        /\ pc' = "returned"
    /\ UNCHANGED <<location, visuals, lore, context_package, current_draft, calls,
                   returns, finished, app_vars>>

Next ==
    \/ StartGather
    \/ \E a \in Agents : ThreadStart(a)
    \/ \E a \in Agents : ThreadFinish(a)
    \/ GatherJoin
    \/ BardDone
    \/ CriticDone

Spec == Init /\ [][Next]_vars

\* Scheduling: a worker of the default executor takes up a call handed to it,
\* the service answers a request it was sent (execute_agent has no timeout,
\* so this is an assumption about the service), and the event loop resumes
\* run_pipeline when what it awaits is ready.
Fairness ==
    /\ \A a \in Agents : WF_vars(ThreadStart(a)) /\ WF_vars(ThreadFinish(a))
    /\ WF_vars(StartGather)
    /\ WF_vars(GatherJoin)
    /\ WF_vars(BardDone)
    /\ WF_vars(CriticDone)

LiveSpec == Spec /\ Fairness

----------------------------------------------------------------------------
(* 5. The caller: the "Summon Agents" handler around run_pipeline *)

\* most clicks of "Summon Agents" in one session
MaxRuns == 2

\* the service in the sessions explored: each role answers with text or the
\* request fails; the Critic scores below, at or above Threshold or writes
\* prose
AppResponses(agent) ==
    CASE agent = "Critic" ->
             {Resp(<<Cand(<<Doc(JObj(JInt(n), JStr(Lit("needs more dread"))))>>)>>) :
                  n \in {Threshold - 1, Threshold}}
               \cup {Resp(<<Cand(<<Lit("A fine myth, 9/10.")>>)>>)}
      [] OTHER -> {Exc(ErrMsg), Resp(<<Cand(<<RoleText(agent)>>)>>)}

\* the script before any click: nothing runs, nothing is stored
InitApp ==
    /\ location = << >>
    /\ pc = "idle"
    /\ task = [a \in Agents |-> NoTask]
    /\ session_memory = EmptyMemory
    /\ visuals = << >>
    /\ lore = << >>
    /\ context_package = << >>
    /\ current_draft = << >>
    /\ feedback = JStr(<< >>)
    /\ eval_result = << >>
    /\ i = 0
    /\ calls = [a \in Agents |-> << >>]
    /\ returns = [a \in Agents |-> << >>]
    /\ finished = << >>
    /\ session_state = NoSessionState
    /\ run = 0

\* st.button("Summon Agents") with a file and a location: asyncio.run enters
\* run_pipeline, which creates a session_memory of its own
Summon ==
    /\ pc = "idle"
    /\ run < MaxRuns
    /\ run' = run + 1
    /\ location' \in Locations
    /\ pc' = "start"
    /\ task' = [a \in Agents |-> NoTask]
    /\ session_memory' = EmptyMemory
    /\ visuals' = << >>
    /\ lore' = << >>
    /\ context_package' = << >>
    /\ current_draft' = << >>
    /\ feedback' = JStr(<< >>)
    /\ eval_result' = << >>
    /\ i' = 0
    /\ calls' = [a \in Agents |-> << >>]
    /\ returns' = [a \in Agents |-> << >>]
    /\ finished' = << >>
    /\ UNCHANGED session_state

ThreadFinishApp(a) == \E response \in AppResponses(a) : Finish(a, response)

\* execute_agent is left by an exception raised before its try statement
\* (building the config or the image part); to_thread hands it to the awaiter
ThreadCrash(a) ==
    /\ task[a].st = "running"
    /\ task' = [task EXCEPT ![a].st = "done", ![a].out = Raised(AttrErrMsg)]
    /\ finished' = Append(finished, a)
    /\ UNCHANGED <<location, pc, session_memory, visuals, lore, context_package,
                   current_draft, feedback, eval_result, i, calls, returns, app_vars>>

\* run_pipeline returned: the three stores after asyncio.run
HandlerStore ==
    /\ pc = "returned"
    /\ session_state' = [memory |-> session_memory,
                         analysis_complete |-> TRUE,
                         current_image |-> run]
    /\ pc' = "idle"
    /\ UNCHANGED <<location, task, session_memory, visuals, lore, context_package,
                   current_draft, feedback, eval_result, i, calls, returns, finished, run>>

\* except Exception as e: st.error and logger.exception, nothing is stored
OnExceptionStores(state, memory) == [state EXCEPT !.memory = memory]
OnException(state, memory) == state

\* run_pipeline raised: the handler reports and logs
HandlerExcept ==
    /\ pc = "raised"
    /\ session_state' = OnException(session_state, session_memory)
    /\ pc' = "idle"
    /\ UNCHANGED <<location, task, session_memory, visuals, lore, context_package,
                   current_draft, feedback, eval_result, i, calls, returns, finished, run>>

NextApp ==
    \/ Summon
    \/ StartGather
    \/ \E a \in Agents : ThreadStart(a)
    \/ \E a \in Agents : ThreadFinishApp(a)
    \/ \E a \in Agents : ThreadCrash(a)
    \/ GatherJoin
    \/ BardDone
    \/ CriticDone
    \/ HandlerStore
    \/ HandlerExcept

SpecApp == InitApp /\ [][NextApp]_vars

----------------------------------------------------------------------------
(* What the properties speak about *)

\* the k-th value the role's Gateway call returned
Result(a, k) == returns[a][k].out.value

\* generate/evaluate iterations begun, and completed
Begun == Len(calls["Bard"])
Evaluated == Len(returns["Critic"])

\* A Critic output read as the loop reads it: fence markers and surrounding
\* whitespace removed, then one JSON document.
IsObject(s) ==
    LET loaded == json_loads(CleanJson(s))
    IN  ~loaded.raised /\ loaded.v.t = "obj"
ObjectOf(s) == json_loads(CleanJson(s)).v

\* the object carries a number as its score (an absent score counts as 0)
HasNumber(s) == IsObject(s) /\ ObjectOf(s).score.t \in {"absent", "int", "bool"}
Number(s) ==
    LET sc == ObjectOf(s).score
    IN  IF sc.t = "int" THEN sc.v ELSE IF sc.t = "bool" /\ sc.v THEN 1 ELSE 0

ScoreHigh(s) == HasNumber(s) /\ Number(s) >= 8
ScoreLow(s) == HasNumber(s) /\ Number(s) < 8
\* not JSON, not an object, or a score that cannot be compared with 8
ParseFails(s) == ~HasNumber(s)

Stops(s) == ScoreHigh(s) \/ ParseFails(s)

----------------------------------------------------------------------------
(* C1 .. C5: the refine loop *)

\* C1: whatever the Bard and the Critic return, the loop runs at most 2
\* generate/evaluate iterations, and it ends at the first of: a parsed score
\* >= 8, a parse failure (any exception of the try block), the end of the
\* 2nd iteration.  So a 2nd iteration is begun only after a 1st evaluation
\* that did not stop, and a finished run has 2 iterations exactly when the
\* 1st evaluation did not stop.
LoopStopsAtFirst ==
    /\ Begun <= 2 /\ Len(calls["Critic"]) <= 2 /\ Evaluated <= 2 /\ i \in 0..1
    /\ (i = 1 \/ Begun = 2 \/ Len(returns["Bard"]) = 2)
          => (Evaluated >= 1 /\ ~Stops(Result("Critic", 1)))
    /\ pc = "returned" =>
          /\ Evaluated \in 1..2
          /\ Evaluated = 1 <=> Stops(Result("Critic", 1))
          /\ Begun = Evaluated

\* a run that ended after 2 iterations, the 2nd with a score below 8
LoopStopsAtFirstWitness ==
    /\ pc = "returned" /\ Evaluated = 2
    /\ ScoreLow(Result("Critic", 1)) /\ ScoreLow(Result("Critic", 2))

\* C2: when run_pipeline returns, drafts holds exactly one element per
\* completed iteration (1 or 2), the Bard's results in the order they were
\* generated, and final_myth is the last element of drafts; also when the
\* loop was left on a parse failure.
DraftsMatchIterations ==
    pc = "returned" =>
        LET drafts == session_memory.drafts
        IN  /\ Len(drafts) = Evaluated
            /\ Len(drafts) \in 1..2
            /\ \A k \in 1..Len(drafts) : drafts[k] = Result("Bard", k)
            /\ session_memory.final_myth = drafts[Len(drafts)]

\* a run of 2 passes with different drafts, the 1st an error marker, left on
\* a parse failure
DraftsMatchIterationsWitness ==
    /\ pc = "returned" /\ Evaluated = 2
    /\ ParseFails(Result("Critic", 2))
    /\ returns["Bard"][1].failed
    /\ Len(session_memory.drafts) = 2
    /\ session_memory.drafts[1] # session_memory.drafts[2]

\* C3: if the Critic's 1st output parses to a JSON object with score >= 8,
\* the loop ends after exactly 1 iteration: no 2nd Bard or Critic call is
\* ever handed out, and the returned final_myth is the 1st draft.
HighScoreStopsAfterOne ==
    (Evaluated >= 1 /\ ScoreHigh(Result("Critic", 1))) =>
        /\ Evaluated = 1 /\ Begun = 1 /\ Len(calls["Critic"]) = 1
        /\ pc \in {"critic", "returned"}
        /\ task["Bard"].st = "none"
        /\ pc = "returned" =>
              /\ task["Critic"].st = "none"
              /\ session_memory.drafts = <<Result("Bard", 1)>>
              /\ session_memory.final_myth = Result("Bard", 1)

\* a returned run whose 1st evaluation scored exactly 8
HighScoreStopsAfterOneWitness ==
    /\ pc = "returned" /\ Evaluated = 1
    /\ IsObject(Result("Critic", 1))
    /\ ObjectOf(Result("Critic", 1)).score = JInt(8)

\* C4: if the Critic's 1st output parses to a JSON object with score < 8,
\* then whatever the Critic returns the 2nd time the loop runs exactly 2
\* iterations, and the returned final_myth is the 2nd draft.
LowScoreRunsTwo ==
    (Evaluated >= 1 /\ ScoreLow(Result("Critic", 1))) =>
        /\ pc # "raised"
        /\ pc = "returned" =>
              /\ Evaluated = 2 /\ Begun = 2 /\ Len(returns["Bard"]) = 2
              /\ Len(session_memory.drafts) = 2
              /\ session_memory.final_myth = Result("Bard", 2)

\* a returned run: score 7 first, unparseable second, and two different drafts
LowScoreRunsTwoWitness ==
    /\ pc = "returned" /\ Evaluated = 2
    /\ IsObject(Result("Critic", 1))
    /\ ObjectOf(Result("Critic", 1)).score = JInt(7)
    /\ ParseFails(Result("Critic", 2))
    /\ Result("Bard", 1) # Result("Bard", 2)
    /\ session_memory.final_myth # Result("Bard", 1)

\* C5: if the Critic's 1st output cannot be parsed (prose, malformed JSON, an
\* error marker, any exception of the try block), the loop ends after exactly
\* 1 iteration, no exception leaves run_pipeline, and it returns with
\* final_myth equal to the 1st draft.
ParseFailureStopsAfterOne ==
    (Evaluated >= 1 /\ ParseFails(Result("Critic", 1))) =>
        /\ Evaluated = 1 /\ Begun = 1 /\ Len(calls["Critic"]) = 1
        /\ pc \in {"critic", "returned"}
        /\ task["Bard"].st = "none"
        /\ pc = "critic" => task["Critic"].st = "done"
        /\ pc = "returned" =>
              /\ session_memory.drafts = <<Result("Bard", 1)>>
              /\ session_memory.final_myth = Result("Bard", 1)

\* a returned run whose 1st Critic output was a JSON object with a string score
ParseFailureStopsAfterOneWitness ==
    /\ pc = "returned" /\ Evaluated = 1
    /\ IsObject(Result("Critic", 1))
    /\ ObjectOf(Result("Critic", 1)).score.t = "str"

----------------------------------------------------------------------------
(* C6 .. C10: gathering, the Gateway, the calls, compaction *)

InFlight(a) == task[a].st \in {"pending", "running"}
BeginsWithError(s) == s # << >> /\ Head(s) = Ch("Error: ")

\* C6: the gathering phase is a barrier.  In every interleaving of the two
\* calls, nothing past the join happens (a store to session_memory's visuals
\* or lore, the context block, a Bard call) unless BOTH gathering calls have
\* completed: no result is used or stored while the other call is in flight.
GatherIsBarrier ==
    (\/ pc \notin {"start", "gather"}
     \/ session_memory.visuals # << >> \/ session_memory.lore # << >>
     \/ visuals # << >> \/ lore # << >>
     \/ context_package # << >>
     \/ task["Bard"].st # "none" \/ calls["Bard"] # << >>)
        => \A a \in GatherAgents :
              /\ task[a].st = "done" /\ ~InFlight(a)
              /\ Len(returns[a]) = 1

\* the first Bard call is out, after the Visionary failed and the
\* Investigator answered
GatherIsBarrierWitness ==
    /\ pc = "bard" /\ task["Bard"].st = "pending" /\ i = 0
    /\ returns["Visionary"][1].failed
    /\ ~returns["Investigator"][1].failed
    /\ session_memory.lore = Result("Investigator", 1)

\* C7: a Gateway call whose external request fails never raises past
\* execute_agent: it returns a string beginning with "Error: ".  So no
\* role's failure aborts the pipeline: run_pipeline never ends by raising,
\* and a finished run carries the marker in the slot of the failed role.
GatewayFailureIsRecovered ==
    /\ \A a \in Agents : \A k \in 1..Len(returns[a]) :
          returns[a][k].failed =>
              /\ ~returns[a][k].out.raised
              /\ BeginsWithError(Result(a, k))
    /\ pc # "raised"
    /\ pc = "returned" =>
          /\ returns["Visionary"][1].failed => BeginsWithError(session_memory.visuals)
          /\ returns["Investigator"][1].failed => BeginsWithError(session_memory.lore)
          /\ \A k \in 1..Len(returns["Bard"]) :
                returns["Bard"][k].failed => BeginsWithError(session_memory.drafts[k])

\* a finished run in which every role's request failed
GatewayFailureIsRecoveredWitness ==
    /\ pc = "returned"
    /\ \A a \in Agents : returns[a][1].failed
    /\ BeginsWithError(session_memory.final_myth)

\* C8: after a run that returned, visuals, lore and final_myth are non-empty
\* strings and drafts is a non-empty sequence (of non-empty strings); no
\* Gateway call ever returns the empty string.
MemoryIsPopulated ==
    /\ \A a \in Agents : \A k \in 1..Len(returns[a]) : Result(a, k) # << >>
    /\ pc = "returned" =>
          /\ session_memory.visuals # << >>
          /\ session_memory.lore # << >>
          /\ session_memory.final_myth # << >>
          /\ session_memory.drafts # << >>
          /\ \A k \in 1..Len(session_memory.drafts) : session_memory.drafts[k] # << >>

\* a finished run in which the service gave the Visionary and the Bard no text
MemoryIsPopulatedWitness ==
    /\ pc = "returned"
    /\ session_memory.visuals = Lit("No response generated.")
    /\ session_memory.final_myth = Lit("No response generated.")

\* C9: a completed run has made between 4 and 6 Gateway calls: one
\* Visionary and one Investigator call, and 1 or 2 Bard calls each followed
\* by exactly one Critic call on that Bard call's draft.
CallsAreBounded ==
    LET total == Len(calls["Visionary"]) + Len(calls["Investigator"])
                   + Len(calls["Bard"]) + Len(calls["Critic"])
    IN  /\ total <= 6
        /\ Len(calls["Critic"]) <= Len(returns["Bard"])
        /\ \A k \in 1..Len(calls["Critic"]) :
              calls["Critic"][k].prompt = Lit("Evaluate:\n") \o Result("Bard", k)
        /\ pc = "returned" =>
              /\ total \in 4..6
              /\ Len(calls["Visionary"]) = 1 /\ Len(calls["Investigator"]) = 1
              /\ Len(calls["Bard"]) \in 1..2
              /\ Len(calls["Critic"]) = Len(calls["Bard"])
              /\ \A a \in Agents : Len(returns[a]) = Len(calls[a])

\* a finished run of 6 calls
CallsAreBoundedWitness ==
    /\ pc = "returned"
    /\ Len(calls["Bard"]) = 2 /\ Len(calls["Critic"]) = 2
    /\ Result("Bard", 1) # Result("Bard", 2)

\* C10: the context block is determined by (location, visuals, lore) alone:
\* the label "LOCATION: ", the location, a newline, the label "VISUALS: ",
\* the visuals, a newline, the label "VERIFIED LORE: ", the lore, a newline;
\* each input stands in it whole and unchanged, at its one place, and every
\* Bard prompt of the run ends with this same block.
CompactionIsExact ==
    pc \in {"bard", "critic", "returned"} =>
        LET loc == location
            vis == session_memory.visuals
            lor == session_memory.lore
            cp == context_package
            a == Len(loc)
            b == Len(vis)
            c == Len(lor)
        IN  /\ Len(cp) = a + b + c + 6
            /\ cp[1] = Ch("LOCATION: ")
            /\ SubSeq(cp, 2, a + 1) = loc
            /\ cp[a + 2] = NL
            /\ cp[a + 3] = Ch("VISUALS: ")
            /\ SubSeq(cp, a + 4, a + b + 3) = vis
            /\ cp[a + b + 4] = NL
            /\ cp[a + b + 5] = Ch("VERIFIED LORE: ")
            /\ SubSeq(cp, a + b + 6, a + b + c + 5) = lor
            /\ cp[a + b + c + 6] = NL
            /\ \A k \in 1..Len(calls["Bard"]) :
                  LET p == calls["Bard"][k].prompt
                  IN  /\ Len(p) > Len(cp)
                      /\ SubSeq(p, Len(p) - Len(cp) + 1, Len(p)) = cp

\* a finished run of two passes whose location holds a newline and a label,
\* and whose visuals are several lines
CompactionIsExactWitness ==
    /\ pc = "returned" /\ Len(calls["Bard"]) = 2
    /\ \E k \in 1..Len(location) : location[k] = NL
    /\ \E k \in 1..Len(location) : location[k] = Ch("VISUALS: ")
    /\ Len(session_memory.visuals) >= 3

----------------------------------------------------------------------------
(* C11 .. C14: order of the loop's calls, prompts, defaults, error drafts *)

\* calls of a role handed to a worker so far
Issued(a) == Len(calls[a]) + (IF task[a].st = "pending" THEN 1 ELSE 0)

\* C11: the loop's calls are strictly sequential.  Past the gathering join at
\* most one Gateway call is in flight; the Critic call of pass k is handed
\* out only after the Bard call of pass k has returned, the Bard call of pass
\* k+1 only after the Critic call of pass k has returned, and no loop call
\* is handed out before both gathering calls have returned.
LoopCallsAreSequential ==
    /\ pc \notin {"start", "gather"} => Cardinality({a \in Agents : InFlight(a)}) <= 1
    /\ Issued("Critic") <= Len(returns["Bard"])
    /\ Issued("Bard") <= Len(returns["Critic"]) + 1
    /\ Issued("Critic") <= Issued("Bard")
    /\ (Issued("Bard") > 0 \/ Issued("Critic") > 0) =>
          \A a \in GatherAgents : Len(returns[a]) = 1 /\ ~InFlight(a)
    /\ InFlight("Bard") => Len(returns["Bard"]) = Len(returns["Critic"])
    /\ InFlight("Critic") => Len(returns["Critic"]) + 1 = Len(returns["Bard"])

\* the Bard call of the 2nd pass is running, alone
LoopCallsAreSequentialWitness ==
    /\ pc = "bard" /\ i = 1
    /\ task["Bard"].st = "running"
    /\ Len(returns["Critic"]) = 1 /\ Len(returns["Bard"]) = 1
    /\ \A a \in Agents \ {"Bard"} : ~InFlight(a)

\* the feedback member of a Critic output that is a JSON object, as text
FeedbackText(s) ==
    LET fb == ObjectOf(s).feedback
    IN  IF fb.t = "str" THEN fb.v
        ELSE IF fb.t = "absent" THEN Lit("Good.") ELSE Lit("None")

\* C12: the Bard prompt is "Write the myth." on the 1st pass and "Refine
\* this myth based on feedback: {feedback}" on every later pass, {feedback}
\* being the feedback of the evaluation just before, whatever feedback the
\* Critic returned; each followed by the context block.
BardPromptFollowsPass ==
    \A k \in 1..Len(calls["Bard"]) :
        LET p == calls["Bard"][k].prompt
            tail == Lit("\n\nCONTEXT:\n") \o context_package
        IN  IF k = 1
            THEN p = Lit("Write the myth.") \o tail
            ELSE p = Lit("Refine this myth based on feedback: ")
                       \o FeedbackText(Result("Critic", k - 1)) \o tail

\* the last evaluation the loop has worked through, when there is one
Worked == pc \in {"bard", "returned"} /\ Evaluated >= 1
LastEval == Result("Critic", Evaluated)

\* C13 as stated: a JSON object whose score is absent or invalid (a string,
\* null) counts as score 0, so the 1st pass is followed by a 2nd; a feedback
\* that is absent or invalid (null) is taken as "Good.".
DefaultsForAbsentOrInvalid ==
    /\ (pc = "returned" /\ IsObject(Result("Critic", 1))
          /\ ObjectOf(Result("Critic", 1)).score.t \in {"absent", "str", "null"})
          => Evaluated = 2
    /\ (Worked /\ IsObject(LastEval)
          /\ ObjectOf(LastEval).feedback.t \in {"absent", "null"})
          => feedback = JStr(Lit("Good."))

\* C13 amended: only an ABSENT member is defaulted.  An absent score counts
\* as 0, so the 1st pass is followed by a 2nd; an absent feedback is taken
\* as "Good.".  A member that is present is used as it is: a score that
\* cannot be compared with 8 (a string, null) ends the loop after that pass,
\* and a present feedback, null included, is bound to feedback unchanged.
DefaultsForAbsent ==
    /\ (Evaluated >= 1 /\ IsObject(Result("Critic", 1))) =>
          LET sc == ObjectOf(Result("Critic", 1)).score
          IN  /\ pc # "raised"
              /\ (sc.t = "absent" /\ pc = "returned") => Evaluated = 2
              /\ sc.t \in {"str", "null"} => Evaluated = 1 /\ Begun = 1
    /\ (Worked /\ IsObject(LastEval)) =>
          LET fb == ObjectOf(LastEval).feedback
          IN  feedback = IF fb.t = "absent" THEN JStr(Lit("Good.")) ELSE fb

\* a finished run: the 1st evaluation had no score, the 2nd no feedback
DefaultsForAbsentWitness ==
    /\ pc = "returned" /\ Evaluated = 2
    /\ IsObject(Result("Critic", 1)) /\ ObjectOf(Result("Critic", 1)).score.t = "absent"
    /\ IsObject(Result("Critic", 2)) /\ ObjectOf(Result("Critic", 2)).feedback.t = "absent"
    /\ feedback = JStr(Lit("Good."))

\* C14: every Bard result is appended to drafts, a failed call's "Error: "
\* marker included: draft k is the k-th Bard result, the Critic is called on
\* it (marker or not), and the loop goes on or stops by the Critic's output
\* alone, so a run can return with an error marker as final_myth.
ErrorDraftsAreKept ==
    LET drafts == session_memory.drafts
        waiting == IF pc = "bard" /\ task["Bard"].st = "done" THEN 1 ELSE 0
    IN  /\ Len(drafts) + waiting = Len(returns["Bard"])
        /\ Issued("Critic") = Len(drafts)
        /\ \A k \in 1..Len(drafts) :
              /\ drafts[k] = Result("Bard", k)
              /\ returns["Bard"][k].failed => BeginsWithError(drafts[k])
              /\ k <= Len(calls["Critic"]) =>
                    calls["Critic"][k].prompt = Lit("Evaluate:\n") \o drafts[k]
        /\ (Evaluated >= 1 /\ returns["Bard"][1].failed /\ ~Stops(Result("Critic", 1))) =>
              (pc = "returned" => Evaluated = 2)
        /\ pc = "returned" =>
              /\ Evaluated = 1 <=> Stops(Result("Critic", 1))
              /\ session_memory.final_myth = Result("Bard", Evaluated)

\* a returned run: a genuine 1st draft, a low score, then the Bard's request
\* failed and the marker is final_myth
ErrorDraftsAreKeptWitness ==
    /\ pc = "returned" /\ Evaluated = 2
    /\ ~returns["Bard"][1].failed /\ ~BeginsWithError(session_memory.drafts[1])
    /\ returns["Bard"][2].failed
    /\ BeginsWithError(session_memory.final_myth)
    /\ calls["Critic"][2].prompt = Lit("Evaluate:\n") \o session_memory.final_myth

----------------------------------------------------------------------------
(* C16: the gathering results and their slots *)

\* the join has resumed run_pipeline: the first Bard call has been handed out
Joined == Issued("Bard") >= 1

\* C16: the two gathering results are bound to their slots by role, not by
\* completion order.  While the two calls run, whichever ends first, both
\* slots keep the value run_pipeline created them with: no worker writes
\* them.  From the join on, in every interleaving, session_memory.visuals
\* is the result of the one Visionary call and session_memory.lore the
\* result of the one Investigator call, and so are the locals the context
\* is built from; the slots never change again.
GatherBindsByRole ==
    /\ ~Joined =>
          /\ session_memory.visuals = << >> /\ session_memory.lore = << >>
          /\ visuals = << >> /\ lore = << >>
    /\ Joined =>
          /\ Len(returns["Visionary"]) = 1 /\ Len(returns["Investigator"]) = 1
          /\ session_memory.visuals = Result("Visionary", 1)
          /\ session_memory.lore = Result("Investigator", 1)
          /\ visuals = Result("Visionary", 1)
          /\ lore = Result("Investigator", 1)
    /\ \A a \in GatherAgents : Len(calls[a]) <= 1 /\ Len(returns[a]) <= 1

\* the Investigator ended before the Visionary, both with text of their own,
\* and the run has gone on past the join
GatherBindsByRoleWitness ==
    /\ Joined /\ pc = "returned"
    /\ Len(finished) >= 2 /\ finished[1] = "Investigator" /\ finished[2] = "Visionary"
    /\ ~returns["Visionary"][1].failed /\ ~returns["Investigator"][1].failed
    /\ session_memory.visuals = RoleText("Visionary")
    /\ session_memory.lore = RoleText("Investigator")

----------------------------------------------------------------------------
(* C15: what the caller stores *)

\* a session_memory as a returned run leaves it
FullyFormed(memory) ==
    /\ memory.visuals # << >> /\ memory.lore # << >>
    /\ memory.drafts # << >>
    /\ memory.final_myth = memory.drafts[Len(memory.drafts)]
    /\ memory.final_myth # << >>

\* C15: SessionMemory is handed to the caller only fully formed.  The stored
\* state (memory, analysis_complete, current_image) changes only in the step
\* that follows a returned run, and then to that run: its completed
\* session_memory, analysis_complete set, the image of this run.  If
\* run_pipeline raises, in the gathering phase or in the loop, the handler
\* leaves all three as they were, so no partly filled session_memory of the
\* abandoned run is ever stored.
MemoryHandedOffWhole ==
    [][/\ session_state' # session_state =>
              /\ pc = "returned"
              /\ FullyFormed(session_memory)
              /\ session_state'.memory = session_memory
              /\ session_state'.analysis_complete
              /\ session_state'.current_image = run
       /\ pc = "raised" => session_state' = session_state
       /\ pc' = "idle" /\ pc = "returned" => session_state'.memory = session_memory]_vars

\* the 1st run was stored; the 2nd raised in the loop, after visuals, lore
\* and a draft had been written to its session_memory, and the handler has
\* reported it: the stored state is still that of the 1st run
MemoryHandedOffWholeWitness ==
    /\ pc = "idle" /\ run = 2
    /\ session_state.analysis_complete /\ session_state.current_image = 1
    /\ FullyFormed(session_state.memory)
    /\ session_memory.visuals # << >> /\ session_memory.drafts # << >>
    /\ session_memory.final_myth = << >>
    /\ session_memory.visuals # session_state.memory.visuals

----------------------------------------------------------------------------
(* C17: termination *)

\* run_pipeline can go on by itself, or it waits for a Gateway call that a
\* worker holds or is about to take up
CanProceed ==
    CASE pc = "start" -> TRUE
      [] pc = "gather" -> GatherReady(task) \/ \E a \in GatherAgents : InFlight(a)
      [] pc = "bard" -> Awaited(task, "Bard") \/ InFlight("Bard")
      [] pc = "critic" -> Awaited(task, "Critic") \/ InFlight("Critic")
      [] OTHER -> FALSE

\* C17: if every Gateway call that was handed out returns, every run of
\* run_pipeline terminates and returns a session_memory.  A run that has
\* not ended is never blocked on anything but a Gateway call in flight: it
\* can take its next step, or the call it awaits is with a worker; so the
\* only way not to terminate is a call that never returns.
RunTerminates ==
    /\ [](pc \notin {"returned", "raised"} => CanProceed)
    /\ <>(pc = "returned" /\ FullyFormed(session_memory) /\ \A a \in Agents : ~InFlight(a))

\* a run that returned after two passes: all six Gateway calls were handed
\* out and have returned
RunTerminatesWitness ==
    /\ pc = "returned"
    /\ Len(finished) = 6
    /\ \A a \in Agents : Len(calls[a]) = Len(returns[a])

====
